---- MODULE Spec2Model ----
(***************************************************************************)
(* A model of the RAG pipeline of rag-mvp-vercel: the chunker              *)
(* (lib/utils.ts chunkText), the ingestion worker                          *)
(* (app/api/ingestion/worker/route.ts), the query handler and the chat     *)
(* completions handler (app/api/rag/query/route.ts).                       *)
(*                                                                         *)
(* A string is kept run-length encoded.  The external                      *)
(* services (embedder, vector index, answer generator, blob storage,       *)
(* Postgres) are modelled by their effect on the state and by a            *)
(* nondeterministic choice between success and failure at every call.      *)
(***************************************************************************)
EXTENDS Integers, Sequences, FiniteSets, TLC

VARIABLES
    \* ---- chunker harness -------------------------------------------------
    text,        \* the input text handed to chunkText
    chunkSize,   \* the chunkSize argument
    chunks,      \* the returned array of chunks
    chunked,     \* TRUE once chunkText has returned
    \* ---- ingestion worker ------------------------------------------------
    blobStore,   \* Vercel Blob: pathname -> content
    docsTable,   \* Postgres table documents: id -> row
    jobsTable,   \* Postgres table ingestion_jobs: the ids of its rows
    vectorIndex, \* Pinecone index: the set of stored vectors
    embedderVersion, \* the version of the embedding model being served
    now,         \* the clock read by Date.now()
    runsStarted, \* number of POST /api/ingestion/worker requests so far
    run,         \* the local state of the request being served
    other,       \* the local state of a second request, suspended at an await
    upserted,    \* history: the upsert calls that succeeded
    markedIndexed, \* history: the mark-as-indexed statements that completed
    \* ---- query handler ---------------------------------------------------
    request,     \* the POST /api/rag/query request and its environment
    q,           \* the local state of the handler serving it
    \* ---- chat completions handler ----------------------------------------
    chatRequest, \* the POST /api/chat/completions request and its environment
    chat         \* the local state of the handler serving it

chunkVars == <<text, chunkSize, chunks, chunked>>
ingestVars == <<blobStore, docsTable, jobsTable, vectorIndex,
                embedderVersion, now, runsStarted, run, other, upserted,
                markedIndexed>>

queryVars == <<request, q>>
chatVars == <<chatRequest, chat>>

vars == <<chunkVars, ingestVars, queryVars, chatVars>>

(***************************************************************************)
(* Bounds of the model.                                                    *)
(***************************************************************************)
MaxLen == 6          \* longest input text of the chunker harness
MaxChunkSize == 4    \* largest chunkSize of the chunker harness
MaxRuns == 2         \* ingestion requests served one after another
MaxTime == 1         \* largest clock reading
MaxVersion == 1      \* versions of the embedding model after the first
MaxHits == 2         \* most search results the vector index returns
MaxDelay == 1        \* longest time an awaited call takes, in clock units
MaxMessages == 2     \* most messages of a chat completions request

(***************************************************************************)
(* Strings.  A string is kept run-length encoded: a sequence of runs, each *)
(* a character c repeated n >= 1 times, no two neighbouring runs of the    *)
(* same character.  The encoding lets a text of a thousand characters be a *)
(* short value; every string has exactly one encoding, so equality of      *)
(* strings is equality of encodings.                                       *)
(***************************************************************************)
\* Characters matched by the regular expression class \s (two of them stand
\* for the class) and two characters that are not.
Whitespace == {" ", "\n"}
Letters == {"a", "b"}
Alphabet == Letters \cup Whitespace

\* c repeated n times.
Rep(c, n) == IF n = 0 THEN <<>> ELSE <<[c |-> c, n |-> n]>>

\* String concatenation.
Concat(s, t) ==
    IF Len(s) = 0 THEN t
    ELSE IF Len(t) = 0 THEN s
    ELSE IF s[Len(s)].c = t[1].c
    THEN SubSeq(s, 1, Len(s) - 1)
            \o <<[c |-> t[1].c, n |-> s[Len(s)].n + t[1].n]>>
            \o Tail(t)
    ELSE s \o t

\* The string spelled by a sequence of characters.
RECURSIVE Str(_)
Str(chars) ==
    IF Len(chars) = 0 THEN <<>>
    ELSE Concat(Rep(chars[1], 1), Str(Tail(chars)))

\* String.prototype.length.
RECURSIVE Length(_)
Length(s) == IF Len(s) = 0 THEN 0 ELSE s[1].n + Length(Tail(s))

\* String.prototype.slice(k): the string without its first k characters.
RECURSIVE slice(_, _)
slice(s, k) ==
    IF k = 0 \/ Len(s) = 0 THEN s
    ELSE IF s[1].n <= k THEN slice(Tail(s), k - s[1].n)
    ELSE <<[c |-> s[1].c, n |-> s[1].n - k]>> \o Tail(s)

\* The first k characters of s.
RECURSIVE Prefix(_, _)
Prefix(s, k) ==
    IF k = 0 \/ Len(s) = 0 THEN <<>>
    ELSE IF s[1].n <= k
    THEN Concat(<<s[1]>>, Prefix(Tail(s), k - s[1].n))
    ELSE <<[c |-> s[1].c, n |-> k]>>

\* String.prototype.startsWith.
startsWith(s, p) == Length(s) >= Length(p) /\ Prefix(s, Length(p)) = p

\* String.prototype.trim: the string without its leading and trailing
\* whitespace.
RECURSIVE trim(_)
trim(s) ==
    IF Len(s) = 0 THEN s
    ELSE IF s[1].c \in Whitespace THEN trim(Tail(s))
    ELSE IF s[Len(s)].c \in Whitespace THEN trim(SubSeq(s, 1, Len(s) - 1))
    ELSE s

\* All sequences over S of length at most n.
SeqsUpTo(S, n) == UNION {[1..k -> S] : k \in 0..n}

\* Index of the first run of whitespace in s, 0 when there is none.
FirstWs(s) ==
    IF \E i \in 1..Len(s) : s[i].c \in Whitespace
    THEN CHOOSE i \in 1..Len(s) :
            /\ s[i].c \in Whitespace
            /\ \A m \in 1..(i - 1) : s[m].c \notin Whitespace
    ELSE 0

\* Index of the run just after the whitespace that starts at run i
\* (Len(s) + 1 when the whitespace reaches the end of s).
AfterWs(s, i) ==
    CHOOSE k \in (i + 1)..(Len(s) + 1) :
        /\ k = Len(s) + 1 \/ s[k].c \notin Whitespace
        /\ \A m \in (i + 1)..(k - 1) : s[m].c \in Whitespace

\* String.prototype.split(/\s+/): the pieces between the maximal stretches
\* of whitespace.  A separator at the start or the end of the string leaves
\* an empty piece there, and the empty string splits into one empty piece.
RECURSIVE split(_)
split(s) ==
    IF FirstWs(s) = 0
    THEN <<s>>
    ELSE <<SubSeq(s, 1, FirstWs(s) - 1)>>
            \o split(SubSeq(s, AfterWs(s, FirstWs(s)), Len(s)))

\* Array.prototype.join(" ").
RECURSIVE join(_)
join(words) ==
    IF Len(words) = 0 THEN <<>>
    ELSE IF Len(words) = 1 THEN words[1]
    ELSE Concat(Concat(words[1], Rep(" ", 1)), join(Tail(words)))

(***************************************************************************)
(* chunkText (lib/utils.ts).                                               *)
(***************************************************************************)
\* A variant of the closing test that looks at the running length alone and
\* forgets the length of the word about to be added.
ClosesChunkIgnoringWord(currentLength, wordLength, currentChunk, size) ==
    currentLength > size /\ Len(currentChunk) > 0

\* A variant of the closing test that closes the chunk as soon as the limit
\* is reached.
ClosesChunkAtLimit(currentLength, wordLength, currentChunk, size) ==
    currentLength + wordLength >= size /\ Len(currentChunk) > 0

\* The test that closes the current chunk before `word` is added.
ClosesChunk(currentLength, wordLength, currentChunk, size) ==
    currentLength + wordLength > size /\ Len(currentChunk) > 0

\* The for loop over words, from the k-th word on, followed by the final
\* push of a non-empty currentChunk.
RECURSIVE chunkLoop(_, _, _, _, _, _)
chunkLoop(words, k, acc, currentChunk, currentLength, size) ==
    IF k > Len(words)
    THEN IF Len(currentChunk) > 0
         THEN Append(acc, join(currentChunk))
         ELSE acc
    ELSE LET word == words[k]
             wordLength == Length(word) + 1
         IN  IF ClosesChunk(currentLength, wordLength, currentChunk, size)
             THEN chunkLoop(words, k + 1, Append(acc, join(currentChunk)),
                            <<word>>, wordLength, size)
             ELSE chunkLoop(words, k + 1, acc,
                            Append(currentChunk, word),
                            currentLength + wordLength, size)

\* A variant of chunkText that skips the empty tokens of the split.
chunkTextSkippingEmpty(t, size) ==
    chunkLoop(SelectSeq(split(t), LAMBDA w : Len(w) > 0), 1, <<>>, <<>>, 0, size)

chunkText(t, size) == chunkLoop(split(t), 1, <<>>, <<>>, 0, size)

(***************************************************************************)
(* The world of the ingestion worker: documents in blob storage and in the *)
(* documents table.                                                        *)
(***************************************************************************)
D1 == Str(<<"d", "1">>)
D2 == Str(<<"d", "2">>)
D3 == Str(<<"d", "3">>)
BlobPaths == {D1, D2}     \* pathnames a blob may have
RowIds == {D2, D3}        \* ids a row of documents may have

\* A text of two tokens that do not fit one chunk of 1000 characters, a short
\* text with a leading blank, and the empty text.
LongText == Concat(Concat(Rep("a", 600), Rep(" ", 1)), Rep("b", 400))
ShortText == Str(<<" ", "a", "b", " ", "b">>)
OtherText == Str(<<"b", "a">>)
EmptyText == <<>>

BlobContent(path) == IF path = D1 THEN LongText ELSE ShortText
RowContent(id) == IF id = D2 THEN OtherText ELSE EmptyText

\* The metadata column of a row: free-form JSON, which may use the keys the
\* worker adds to every vector.
RowMetadata(id) ==
    IF id = D2
    THEN [title |-> Str(<<"T">>)]
    ELSE [content |-> Str(<<"x">>), chunkIndex |-> 9, totalChunks |-> 9]

StrBlob == Str(<<"b", "l", "o", "b">>)
StrDatabase == Str(<<"d", "a", "t", "a", "b", "a", "s", "e">>)
StrCreated == Str(<<"2", "0", "2", "4">>)
BlobUrl(path) == Concat(Str(<<"/">>), path)

\* A variant of the spread in which the earlier object wins.
SpreadFirstWins(a, b) ==
    [k \in (DOMAIN a) \cup (DOMAIN b) |-> IF k \in DOMAIN a THEN a[k] ELSE b[k]]

\* {...a, ...b}: object spread, the later object wins.
Spread(a, b) ==
    [k \in (DOMAIN a) \cup (DOMAIN b) |-> IF k \in DOMAIN b THEN b[k] ELSE a[k]]

\* A finite set of strings as a sequence in ascending order of D1, D2, D3.
IdOrder == <<D1, D2, D3>>
InIdOrder(S) == SelectSeq(IdOrder, LAMBDA d : d \in S)

(***************************************************************************)
(* fetchUnprocessedDocuments and checkIfIndexed.                           *)
(***************************************************************************)
\* checkIfIndexed: FALSE when the query throws, otherwise whether a row with
\* this id exists and has indexed_at set.
checkIfIndexed(documentId, queryThrows) ==
    IF queryThrows THEN FALSE
    ELSE documentId \in DOMAIN docsTable /\ docsTable[documentId].indexed

BlobDocument(path) ==
    [id |-> path,
     content |-> blobStore[path],
     metadata |-> [title |-> path,
                   url |-> BlobUrl(path),
                   createdAt |-> StrCreated,
                   documentType |-> StrBlob],
     blobUrl |-> BlobUrl(path)]

RowDocument(id) ==
    [id |-> id,
     content |-> docsTable[id].content,
     metadata |-> Spread(docsTable[id].metadata,
                         [createdAt |-> StrCreated,
                          documentType |-> StrDatabase])]

\* The loop over the listed blobs from the k-th on.  checkThrows is the set
\* of blobs whose checkIfIndexed query throws, fetchThrows the set of blobs
\* whose content cannot be fetched.  The result is the documents pushed and
\* whether the loop ran to its end.
RECURSIVE BlobLoop(_, _, _, _, _)
BlobLoop(blobs, k, documents, checkThrows, fetchThrows) ==
    IF k > Len(blobs)
    THEN [documents |-> documents, thrown |-> FALSE]
    ELSE IF checkIfIndexed(blobs[k], blobs[k] \in checkThrows)
    THEN BlobLoop(blobs, k + 1, documents, checkThrows, fetchThrows)
    ELSE IF blobs[k] \in fetchThrows
    THEN [documents |-> documents, thrown |-> TRUE]
    ELSE BlobLoop(blobs, k + 1, Append(documents, BlobDocument(blobs[k])),
                  checkThrows, fetchThrows)

\* The rows of SELECT ... FROM documents WHERE indexed_at IS NULL.
PendingRows == InIdOrder({id \in DOMAIN docsTable : ~docsTable[id].indexed})

\* The array `documents` lives outside the try block: what was pushed before
\* a call threw is what the function returns.
fetchUnprocessedDocuments(listThrows, checkThrows, fetchThrows, selectThrows) ==
    IF listThrows THEN <<>>
    ELSE LET fromBlobs == BlobLoop(InIdOrder(DOMAIN blobStore), 1, <<>>,
                                   checkThrows, fetchThrows)
         IN  IF fromBlobs.thrown \/ selectThrows
             THEN fromBlobs.documents
             ELSE fromBlobs.documents
                    \o [k \in DOMAIN PendingRows |-> RowDocument(PendingRows[k])]

\* Whether a call to a document source threw during the listing and control
\* went to the catch block: list(), the fetch of a blob that is not indexed,
\* or the SELECT (reached when no earlier call threw).
fetchThrew(listThrows, checkThrows, fetchThrows, selectThrows) ==
    \/ listThrows
    \/ BlobLoop(InIdOrder(DOMAIN blobStore), 1, <<>>,
                checkThrows, fetchThrows).thrown
    \/ selectThrows

(***************************************************************************)
(* processDocument.                                                        *)
(***************************************************************************)
ProcessChunkSize == 1000

StrChunk == Str(<<"_", "c", "h", "u", "n", "k", "_">>)
Digit(n) == <<"0", "1", "2", "3", "4", "5", "6", "7", "8", "9">>[n + 1]
RECURSIVE NumberToString(_)
NumberToString(n) ==
    IF n < 10 THEN Rep(Digit(n), 1)
    ELSE Concat(NumberToString(n \div 10), Rep(Digit(n % 10), 1))

\* A variant of the id that also depends on the request building it.
VectorIdPerRequest(documentId, index) ==
    Concat(Concat(Concat(documentId, StrChunk), NumberToString(index)),
           NumberToString(runsStarted))

\* `${document.id}_chunk_${index}`, index counted from 0.
VectorId(documentId, index) ==
    Concat(Concat(documentId, StrChunk), NumberToString(index))

\* The embedder, an external service: the vector of a text is a function of
\* the text and of the version of the embedding model being served.  The
\* output of a batch is aligned with its input.
EmbeddingOf(t, version) ==
    <<version, Length(t), IF Len(t) > 0 THEN t[1].c ELSE "">>
BatchEmbed(texts, version) ==
    [i \in DOMAIN texts |-> EmbeddingOf(texts[i], version)]

\* A variant that pairs every chunk with the first embedding.
EmbeddingAtFirst(embeddings, index) == embeddings[1]

\* The element of `embeddings` paired with the chunk at 0-based `index`.
EmbeddingAt(embeddings, index) == embeddings[index + 1]

\* chunks.map((chunk, index) => ({id, values, metadata})); positions in the
\* model's sequences are 1-based, `index` is the code's 0-based index.
VectorDocuments(document, docChunks, embeddings) ==
    [p \in DOMAIN docChunks |->
        LET index == p - 1
        IN  [id |-> VectorId(document.id, index),
             values |-> EmbeddingAt(embeddings, index),
             metadata |-> Spread(document.metadata,
                                 [content |-> docChunks[p],
                                  chunkIndex |-> index,
                                  totalChunks |-> Len(docChunks)])]]

Range(f) == {f[x] : x \in DOMAIN f}

\* A variant of the upsert that replaces the whole content of the index.
IndexReplace(index, vectors) == Range(vectors)

\* A variant of the upsert that stores a vector beside the stored vector of
\* the same id.
IndexInsert(index, vectors) == index \cup Range(vectors)

\* index.upsert(vectors): a vector replaces the stored vector of the same id.
IndexUpsert(index, vectors) ==
    {v \in index : \A w \in Range(vectors) : w.id # v.id} \cup Range(vectors)

(***************************************************************************)
(* POST /api/ingestion/worker.  A request is served in steps, one per      *)
(* awaited call; requests are served one after another.                    *)
(***************************************************************************)
\* A header that is not sent: no string.
Null == <<[c |-> "<null>", n |-> 0]>>
StrBearer == Str(<<"B", "e", "a", "r", "e", "r", " ">>)
\* process.env.CRON_SECRET: not set (or empty), or a secret.
CronSecrets == {<<>>, Str(<<"s">>)}
AuthHeaders ==
    {Null, Concat(StrBearer, Str(<<"s">>)), Concat(StrBearer, Str(<<"x">>))}

\* cronSecret && authHeader !== `Bearer ${cronSecret}`
CronUnauthorized(cronSecret, authHeader) ==
    Length(cronSecret) > 0 /\ authHeader # Concat(StrBearer, cronSecret)

IdleRun ==
    [pc |-> "idle", id |-> 0, jobId |-> 0, fetchFailed |-> FALSE,
     documents |-> <<>>, i |-> 0,
     chunks |-> <<>>, embeddings |-> <<>>, vectorDocuments |-> <<>>,
     errors |-> <<>>, processedCount |-> 0, log |-> <<>>,
     response |-> [kind |-> "none"]]

ErrorResponse(error, statusCode) ==
    [kind |-> "error", error |-> error, statusCode |-> statusCode]

JobResponse(success, jobId, documentsProcessed, errors) ==
    [kind |-> "job", statusCode |-> 200, success |-> success, jobId |-> jobId,
     documentsProcessed |-> documentsProcessed, errors |-> errors]

IngestionError(document, message) ==
    [documentId |-> document.id, message |-> message, timestamp |-> now]

\* Where the loop over documents goes after a document failed ...
PcAbortAfterFailure(i, n) == "job"

PcAfterFailure(i, n) == IF i < n THEN "embed" ELSE "job"

\* ... and after a document was processed.
PcAfterSuccess(i, n) == IF i < n THEN "embed" ELSE "job"

Document == run.documents[run.i]

\* A variant of the test that never returns early.
NoDocumentsNever(documents) == FALSE

\* documents.length === 0
NoDocuments(documents) == Len(documents) = 0

\* A variant of the catch block that puts the error in front of the list.
UnshiftError(errors, e) == <<e>> \o errors

\* errors.push(e)
PushError(errors, e) == Append(errors, e)

\* A variant of the catch block after which the same document is processed
\* again.
IndexRetry(i) == i

\* The position of the document the loop goes to after the catch block.
IndexAfterFailure(i) == i + 1

\* A variant that counts a document only when it was marked as indexed.
CountIfMarked(processedCount, marked) ==
    IF marked THEN processedCount + 1 ELSE processedCount

\* processedCount++ after processDocument returned, whether or not the
\* document was marked as indexed.
CountProcessed(processedCount, marked) == processedCount + 1

LogEntry(op, ok, records) ==
    [op |-> op, pos |-> run.i, ok |-> ok, records |-> records]

\* Time passes.  The clock is modelled at the granularity of requests: the
\* readings taken while one request is served equal the reading at its start.
Tick ==
    /\ run.pc = "idle"
    /\ now < MaxTime
    /\ now' = now + 1
    /\ UNCHANGED <<chunkVars, queryVars, chatVars, blobStore, docsTable, jobsTable, vectorIndex,
                   embedderVersion, runsStarted, run, upserted,
                   other, markedIndexed>>

\* The provider starts serving another version of the embedding model.
EmbedderUpdate ==
    /\ run.pc = "idle"
    /\ embedderVersion < MaxVersion
    /\ embedderVersion' = embedderVersion + 1
    /\ UNCHANGED <<chunkVars, queryVars, chatVars, blobStore, docsTable, jobsTable, vectorIndex,
                   now, runsStarted, run, upserted,
                   other, markedIndexed>>

\* The number of requests served: MaxRuns over stores that hold documents of
\* a single id (or none), one request over larger stores.
StoredIds == (DOMAIN blobStore) \cup (DOMAIN docsTable)
SingleId == \A d, e \in StoredIds : d = e
RunLimit == IF SingleId THEN MaxRuns ELSE 1

\* The stores hold one document: requests served at once are explored over
\* these stores.
OneDocument ==
    \E d \in StoredIds :
        /\ SingleId
        /\ ~(d \in DOMAIN blobStore /\ d \in DOMAIN docsTable)

\* The content a blob has after it was uploaded again.
EditedContent(path) == OtherText

\* Between two requests a blob is uploaded again under its pathname, with
\* another content.
BlobUpdate ==
    /\ run.pc = "idle"
    /\ 0 < runsStarted
    /\ runsStarted < RunLimit
    /\ \E path \in DOMAIN blobStore :
          /\ blobStore[path] = BlobContent(path)
          /\ blobStore' = [blobStore EXCEPT ![path] = EditedContent(path)]
    /\ UNCHANGED <<chunkVars, queryVars, chatVars, docsTable, jobsTable, vectorIndex,
                   embedderVersion, now, runsStarted, run, upserted,
                   other, markedIndexed>>

\* A request arrives: the job id is taken from the clock and the cron secret
\* is checked.
Start ==
    /\ run.pc = "idle"
    /\ runsStarted < RunLimit
    /\ runsStarted' = runsStarted + 1
    /\ \E cronSecret \in CronSecrets, authHeader \in AuthHeaders :
          run' = IF CronUnauthorized(cronSecret, authHeader)
                 THEN [IdleRun EXCEPT
                         !.pc = "done", !.id = runsStarted + 1,
                         !.jobId = now,
                         !.response = ErrorResponse("Unauthorized", 401)]
                 ELSE [IdleRun EXCEPT !.pc = "fetch",
                         !.id = runsStarted + 1, !.jobId = now]
    /\ UNCHANGED <<chunkVars, queryVars, chatVars, blobStore, docsTable, jobsTable, vectorIndex,
                   embedderVersion, now, upserted,
                   other, markedIndexed>>

\* await fetchUnprocessedDocuments(), and the early return on an empty list.
Fetch ==
    /\ run.pc = "fetch"
    /\ \E listThrows, selectThrows \in BOOLEAN,
          checkThrows, fetchThrows \in SUBSET (DOMAIN blobStore) :
          LET documents == fetchUnprocessedDocuments(
                               listThrows, checkThrows, fetchThrows, selectThrows)
              threw == fetchThrew(
                           listThrows, checkThrows, fetchThrows, selectThrows)
          IN  run' = IF NoDocuments(documents)
                     THEN [run EXCEPT
                             !.pc = "done",
                             !.fetchFailed = threw,
                             !.response = JobResponse(TRUE, run.jobId, 0, <<>>)]
                     ELSE [run EXCEPT
                             !.pc = PcAfterSuccess(0, Len(documents)),
                             !.fetchFailed = threw,
                             !.documents = documents, !.i = 1]
    /\ UNCHANGED <<chunkVars, queryVars, chatVars, blobStore, docsTable, jobsTable, vectorIndex,
                   embedderVersion, now, runsStarted, upserted,
                   other, markedIndexed>>

\* processDocument up to the upsert: the document is chunked, the chunks are
\* embedded in one call and the vectors are built.
EmbedOk ==
    /\ run.pc = "embed"
    /\ LET docChunks == chunkText(Document.content, ProcessChunkSize)
           embeddings == BatchEmbed(docChunks, embedderVersion)
       IN  run' = [run EXCEPT
                     !.pc = "upsert",
                     !.chunks = docChunks,
                     !.embeddings = embeddings,
                     !.vectorDocuments =
                         VectorDocuments(Document, docChunks, embeddings),
                     !.log = Append(@, LogEntry("embed", TRUE, docChunks))]
    /\ UNCHANGED <<chunkVars, queryVars, chatVars, blobStore, docsTable, jobsTable, vectorIndex,
                   embedderVersion, now, runsStarted, upserted,
                   other, markedIndexed>>

\* generateEmbeddingsBatch throws: the catch block of the loop records the
\* error and the loop goes on.
EmbedFail ==
    /\ run.pc = "embed"
    /\ run' = [run EXCEPT
                 !.pc = PcAfterFailure(run.i, Len(run.documents)),
                 !.i = IndexAfterFailure(@),
                 !.errors = PushError(@, IngestionError(Document,
                                "Failed to generate batch embeddings")),
                 !.log = Append(@, LogEntry("embed", FALSE,
                            chunkText(Document.content, ProcessChunkSize)))]
    /\ UNCHANGED <<chunkVars, queryVars, chatVars, blobStore, docsTable, jobsTable, vectorIndex,
                   embedderVersion, now, runsStarted, upserted,
                   other, markedIndexed>>

\* await upsertVectors(vectorDocuments) succeeds.
UpsertOk ==
    /\ run.pc = "upsert"
    /\ vectorIndex' = IndexUpsert(vectorIndex, run.vectorDocuments)
    /\ upserted' = upserted \cup
          {[run |-> run.id, document |-> Document,
            version |-> embedderVersion, records |-> run.vectorDocuments]}
    /\ run' = [run EXCEPT
                 !.pc = "mark",
                 !.log = Append(@, LogEntry("upsert", TRUE, run.vectorDocuments))]
    /\ UNCHANGED <<chunkVars, queryVars, chatVars, blobStore, docsTable, jobsTable,
                   embedderVersion, now, runsStarted, other, markedIndexed>>

\* upsertVectors throws.
UpsertFail ==
    /\ run.pc = "upsert"
    /\ run' = [run EXCEPT
                 !.pc = PcAfterFailure(run.i, Len(run.documents)),
                 !.i = IndexAfterFailure(@),
                 !.errors = PushError(@, IngestionError(Document,
                                "Failed to upsert vectors")),
                 !.log = Append(@, LogEntry("upsert", FALSE,
                                            run.vectorDocuments))]
    /\ UNCHANGED <<chunkVars, queryVars, chatVars, blobStore, docsTable, jobsTable, vectorIndex,
                   embedderVersion, now, runsStarted, upserted,
                   other, markedIndexed>>

\* UPDATE documents SET indexed_at = NOW() WHERE id = ...: a row with this id
\* is marked, and no row is touched when there is none.
MarkIndexed(table, documentId) ==
    [id \in DOMAIN table |->
        IF id = documentId THEN [table[id] EXCEPT !.indexed = TRUE]
        ELSE table[id]]

MarkOk ==
    /\ run.pc = "mark"
    /\ docsTable' = MarkIndexed(docsTable, Document.id)
    /\ run' = [run EXCEPT
                 !.pc = PcAfterSuccess(run.i, Len(run.documents)),
                 !.i = @ + 1,
                 !.processedCount = CountProcessed(@, TRUE),
                 !.log = Append(@, LogEntry("mark", TRUE, <<>>))]
    /\ markedIndexed' = markedIndexed \cup {[run |-> run.id, document |-> Document]}
    /\ UNCHANGED <<chunkVars, queryVars, chatVars, blobStore, jobsTable, vectorIndex,
                   embedderVersion, now, runsStarted, upserted, other>>

\* The UPDATE throws: the error is logged and swallowed.
MarkFail ==
    /\ run.pc = "mark"
    /\ run' = [run EXCEPT
                 !.pc = PcAfterSuccess(run.i, Len(run.documents)),
                 !.i = @ + 1,
                 !.processedCount = CountProcessed(@, FALSE),
                 !.log = Append(@, LogEntry("mark", FALSE, <<>>))]
    /\ UNCHANGED <<chunkVars, queryVars, chatVars, blobStore, docsTable, jobsTable, vectorIndex,
                   embedderVersion, now, runsStarted, upserted,
                   other, markedIndexed>>

\* A variant of the response that always reports success.
FinalResponseAlwaysSuccess ==
    JobResponse(TRUE, run.jobId, run.processedCount, run.errors)

FinalResponse ==
    JobResponse(Len(run.errors) = 0, run.jobId, run.processedCount, run.errors)

\* A variant of updateJobStatus that lets the error of the INSERT escape to
\* the catch block of the handler.
PersistFailureEscalated == ErrorResponse("InternalServerError", 500)

\* updateJobStatus swallows the error of the INSERT: the handler goes on to
\* build the response.
PersistFailureResponse == FinalResponse

\* updateJobStatus inserts the job row, then the response is built and
\* returned.  The id is the primary key of ingestion_jobs; the other columns
\* are never read back, and the table is kept as the set of ids inserted.
UpdateJobStatusOk ==
    /\ run.pc = "job"
    /\ run.jobId \notin jobsTable
    /\ jobsTable' = jobsTable \cup {run.jobId}
    /\ run' = [run EXCEPT !.pc = "done", !.response = FinalResponse]
    /\ UNCHANGED <<chunkVars, queryVars, chatVars, blobStore, docsTable, vectorIndex,
                   embedderVersion, now, runsStarted, upserted,
                   other, markedIndexed>>

\* The INSERT throws (the database fails, or a row with this id exists): the
\* error is logged and swallowed.
UpdateJobStatusFail ==
    /\ run.pc = "job"
    /\ run' = [run EXCEPT !.pc = "done", !.response = PersistFailureResponse]
    /\ UNCHANGED <<chunkVars, queryVars, chatVars, blobStore, docsTable, jobsTable, vectorIndex,
                   embedderVersion, now, runsStarted, upserted,
                   other, markedIndexed>>

\* The response has been sent: the request is over.
Finish ==
    /\ run.pc = "done"
    /\ run' = IdleRun
    /\ UNCHANGED <<chunkVars, queryVars, chatVars, blobStore, docsTable, jobsTable, vectorIndex,
                   embedderVersion, now, runsStarted, upserted,
                   other, markedIndexed>>

\* Two requests are served at once: the request being served is suspended
\* at an awaited call and the second request runs, on another instance or
\* on the same event loop.  The requests share the stores and the clock and
\* nothing else.
Switch ==
    /\ OneDocument
    /\ run # other
    /\ run.pc # "done"
    /\ run' = other
    /\ other' = run
    /\ UNCHANGED <<chunkVars, queryVars, chatVars, blobStore, docsTable, jobsTable, vectorIndex,
                   embedderVersion, now, runsStarted, upserted, markedIndexed>>

(***************************************************************************)
(* POST /api/rag/query.                                                    *)
(***************************************************************************)
\* JSON values as the handler tells them apart.
Undefined == [type |-> "undefined"]
JNull == [type |-> "null"]
JBool(b) == [type |-> "boolean", bool |-> b]
JNum(n) == [type |-> "number", num |-> n]
JStr(str) == [type |-> "string", str |-> str]

\* JavaScript truthiness.
Truthy(v) ==
    CASE v.type = "undefined" -> FALSE
      [] v.type = "null" -> FALSE
      [] v.type = "boolean" -> v.bool
      [] v.type = "number" -> v.num # 0
      [] v.type = "string" -> Length(v.str) > 0
      [] OTHER -> TRUE

\* a || b
Or(a, b) == IF Truthy(a) THEN a ELSE b

\* A variant of the validation that lets every request pass when no key is
\* configured.
validateAPIKeyOptional(authHeader, expectedKey) ==
    IF Length(expectedKey) = 0 THEN TRUE
    ELSE IF authHeader = Null \/ Length(authHeader) = 0 THEN FALSE
    ELSE LET providedKey == IF startsWith(authHeader, StrBearer)
                            THEN slice(authHeader, 7)
                            ELSE authHeader
         IN  providedKey = expectedKey

\* validateAPIKey: expectedKey is process.env.RAG_API_KEY (empty: not set),
\* authHeader the Authorization header (Null: not sent).
validateAPIKey(authHeader, expectedKey) ==
    IF Length(expectedKey) = 0 THEN FALSE
    ELSE IF authHeader = Null \/ Length(authHeader) = 0 THEN FALSE
    ELSE LET providedKey == IF startsWith(authHeader, StrBearer)
                            THEN slice(authHeader, 7)
                            ELSE authHeader
         IN  providedKey = expectedKey

TopKResults == 5     \* getRAGConfig().topKResults with TOP_K_RESULTS unset

StrNoInformation == Str(<<"n", "o", "n", "e">>)  \* "I couldn't find any ..."
StrNoResponse == Str(<<"n", "o", "r", "e", "s", "p">>) \* "No response generated"
StrModel == Str(<<"g", "p", "t">>)               \* getRAGConfig().llmModel

\* createErrorResponse / handleError: the body holds error, message,
\* statusCode and timestamp, and nothing else.
createErrorResponse(error, message, statusCode) ==
    [kind |-> "error", error |-> error, message |-> message,
     statusCode |-> statusCode]

\* A variant of the catch block that answers a failed step with a result
\* that has no sources.
handleErrorWithFallback(message) ==
    [kind |-> "result", statusCode |-> 200, answer |-> StrNoInformation,
     sources |-> <<>>,
     metadata |-> [queryProcessingTimeMs |-> 0, vectorSearchTimeMs |-> 0,
                   llmGenerationTimeMs |-> 0, totalDocumentsSearched |-> 0,
                   model |-> StrModel]]

handleError(message) ==
    createErrorResponse("InternalServerError", message, 500)

\* A variant of the catch block that runs the failed step again.
RetryAfterFailure == q.pc

\* The catch block of the handler returns the error response: the request
\* is over.
AfterFailure == "done"

\* !query || typeof query !== "string" || query.trim().length === 0
QueryRejected(query) ==
    \/ ~Truthy(query)
    \/ query.type # "string"
    \/ Length(trim(query.str)) = 0

\* extractContentFromSearchResult
extractContentFromSearchResult(result) ==
    IF "content" \in DOMAIN result.metadata
       /\ result.metadata.content.type = "string"
    THEN result.metadata.content.str
    ELSE <<>>

\* The metadata of a source as the caller receives it: the five recognized
\* keys, each present when the search result holds a string under it (a key
\* whose value is undefined is left out of the JSON body).
RecognizedKeys == {"title", "url", "createdAt", "updatedAt", "documentType"}

\* A variant that hands the metadata of the search result through.
SourceMetadataUnfiltered(result, includeMetadata) ==
    [k \in {k \in DOMAIN result.metadata : result.metadata[k].type = "string"}
        |-> result.metadata[k].str]

SourceMetadata(result, includeMetadata) ==
    IF Truthy(includeMetadata)
    THEN [k \in {k \in RecognizedKeys \cap DOMAIN result.metadata :
                    result.metadata[k].type = "string"}
            |-> result.metadata[k].str]
    ELSE [k \in {} |-> <<>>]

\* A variant that lists the sources from the last search result to the
\* first.
SourcesReversed(searchResults, includeMetadata) ==
    [p \in DOMAIN searchResults |->
        LET result == searchResults[Len(searchResults) + 1 - p]
        IN  [id |-> result.id,
             content |-> extractContentFromSearchResult(result),
             score |-> result.score,
             metadata |-> SourceMetadata(result, includeMetadata)]]

Sources(searchResults, includeMetadata) ==
    [p \in DOMAIN searchResults |->
        [id |-> searchResults[p].id,
         content |-> extractContentFromSearchResult(searchResults[p]),
         score |-> searchResults[p].score,
         metadata |-> SourceMetadata(searchResults[p], includeMetadata)]]

\* A variant of the metadata that reports the total time as the search
\* time.
QueryMetadataTotalAsSearch(total, searchTime, generationTime, documents) ==
    [queryProcessingTimeMs |-> total,
     vectorSearchTimeMs |-> total,
     llmGenerationTimeMs |-> generationTime,
     totalDocumentsSearched |-> documents,
     model |-> StrModel]

\* The metadata of a result: the time since the handler started, the time
\* of the search, the time of the generation, the number of matches and the
\* model.  The time of the embedding call is measured and logged, and is
\* not part of the response.
QueryMetadata(total, searchTime, generationTime, documents) ==
    [queryProcessingTimeMs |-> total,
     vectorSearchTimeMs |-> searchTime,
     llmGenerationTimeMs |-> generationTime,
     totalDocumentsSearched |-> documents,
     model |-> StrModel]

\* A variant of the test that never takes the short cut.
NoShortCircuit(searchResults) == FALSE

\* searchResults.length === 0
ZeroResults(searchResults) == Len(searchResults) = 0

\* The matches the vector index may hold.
Hits ==
    {[id |-> VectorId(D1, 0), score |-> 9,
      metadata |-> [content |-> JStr(Rep("a", 600)),
                    title |-> JStr(D1),
                    documentType |-> JStr(StrBlob),
                    chunkIndex |-> JNum(0),
                    totalChunks |-> JNum(2)]],
     [id |-> VectorId(D2, 0), score |-> 5,
      metadata |-> [content |-> JNum(7),
                    title |-> JNum(1),
                    url |-> JStr(BlobUrl(D2))]],
     [id |-> VectorId(D3, 0), score |-> 0,
      metadata |-> [k \in {} |-> Undefined]]}

\* The lists of at most n different matches.
HitLists(n) ==
    {l \in SeqsUpTo(Hits, n) : \A i, j \in DOMAIN l : i # j => l[i] # l[j]}

\* What the answer generator may return as the content of its first choice.
GeneratedContents == {<<>>, Str(<<"y", "e", "s">>)}

\* The requests: the environment's RAG_API_KEY, the Authorization header and
\* the body, which is no JSON, the JSON value null, or a JSON object.
StrKey == Str(<<"k">>)
ApiKeys == {<<>>, StrKey}
ApiAuthHeaders ==
    {Null, StrKey, Concat(StrBearer, StrKey), Concat(StrBearer, Str(<<"x">>))}
QueryValues ==
    {Undefined, JNull, JNum(5), JStr(<<>>), JStr(Str(<<" ", "\n">>)),
     JStr(Str(<<"a">>)), JStr(Str(<<" ", "a", " ", "b", " ">>))}
MaxResultsValues == {Undefined, JNum(0), JNum(2), JNum(0 - 1), JNum(21)}
IncludeMetadataValues == {Undefined, JBool(TRUE), JBool(FALSE)}
Bodies ==
    {[kind |-> "invalid"], [kind |-> "null"]}
    \cup {[kind |-> "object", query |-> query, maxResults |-> maxResults,
           includeMetadata |-> includeMetadata] :
            query \in QueryValues, maxResults \in MaxResultsValues,
            includeMetadata \in IncludeMetadataValues}
Requests ==
    [expectedKey : ApiKeys, authHeader : ApiAuthHeaders, body : Bodies]

IdleQuery ==
    [pc |-> "start", calls |-> <<>>, elapsed |-> 0, embeddingTime |-> 0,
     searchTime |-> 0, searchResults |-> <<>>, response |-> [kind |-> "none"]]

\* const { query, maxResults, includeMetadata = true } = body
Query == request.body.query
MaxResults == request.body.maxResults
IncludeMetadata ==
    IF request.body.includeMetadata.type = "undefined" THEN JBool(TRUE)
    ELSE request.body.includeMetadata

Call(op, ok, arg) == [op |-> op, ok |-> ok, arg |-> arg]

\* Steps 1 and 2 of the handler: the API key, the body and the query are
\* checked.  Destructuring the body null throws a TypeError, which the catch
\* block of the handler answers.
QueryValidate ==
    /\ q.pc = "start"
    /\ q' = IF ~validateAPIKey(request.authHeader, request.expectedKey)
            THEN [q EXCEPT !.pc = "done",
                    !.response = createErrorResponse(
                        "Unauthorized", "Invalid or missing API key", 401)]
            ELSE IF request.body.kind = "invalid"
            THEN [q EXCEPT !.pc = "done",
                    !.response = createErrorResponse(
                        "BadRequest", "Invalid JSON in request body", 400)]
            ELSE IF request.body.kind = "null"
            THEN [q EXCEPT !.pc = "done",
                    !.response = handleError("Cannot destructure property")]
            ELSE IF QueryRejected(Query)
            THEN [q EXCEPT !.pc = "done",
                    !.response = createErrorResponse(
                        "BadRequest",
                        "Query parameter is required and must be a non-empty string",
                        400)]
            ELSE [q EXCEPT !.pc = "embed"]
    /\ UNCHANGED <<chunkVars, ingestVars, chatVars, request>>

\* await generateEmbedding(query) returns after d clock units.
QueryEmbedOk ==
    /\ q.pc = "embed"
    /\ \E d \in 0..MaxDelay :
          q' = [q EXCEPT !.pc = "search",
                  !.calls = Append(@, Call("embed", TRUE, Query.str)),
                  !.embeddingTime = d,
                  !.elapsed = @ + d]
    /\ UNCHANGED <<chunkVars, ingestVars, chatVars, request>>

QueryEmbedFail ==
    /\ q.pc = "embed"
    /\ q' = [q EXCEPT !.pc = AfterFailure,
               !.calls = Append(@, Call("embed", FALSE, Query.str)),
               !.response = handleError("Failed to generate embedding")]
    /\ UNCHANGED <<chunkVars, ingestVars, chatVars, request>>

\* The top-K count handed to the index: maxResults || config.topKResults in
\* the handler, then topK || config.topKResults in vectorSearch.
TopK == Or(Or(MaxResults, JNum(TopKResults)), JNum(TopKResults)).num

\* await vectorSearch(embedding, topK) returns at most topK matches; the
\* index is taken to reject a count below 1.  An empty result ends the
\* request with the fixed answer.
QuerySearchOk ==
    /\ q.pc = "search"
    /\ TopK >= 1
    /\ \E d \in 0..MaxDelay, results \in HitLists(MaxHits) :
          /\ Len(results) <= TopK
          /\ q' = IF ZeroResults(results)
                  THEN [q EXCEPT !.pc = "done",
                          !.calls = Append(@, Call("search", TRUE, TopK)),
                          !.searchTime = d,
                          !.elapsed = @ + d,
                          !.searchResults = results,
                          !.response =
                              [kind |-> "result", statusCode |-> 200,
                               answer |-> StrNoInformation,
                               sources |-> <<>>,
                               metadata |->
                                  QueryMetadata(q.elapsed + d, d, 0, 0)]]
                  ELSE [q EXCEPT !.pc = "generate",
                          !.calls = Append(@, Call("search", TRUE, TopK)),
                          !.searchTime = d,
                          !.elapsed = @ + d,
                          !.searchResults = results]
    /\ UNCHANGED <<chunkVars, ingestVars, chatVars, request>>

QuerySearchFail ==
    /\ q.pc = "search"
    /\ q' = [q EXCEPT !.pc = AfterFailure,
               !.calls = Append(@, Call("search", FALSE, TopK)),
               !.response = handleError("Vector search failed")]
    /\ UNCHANGED <<chunkVars, ingestVars, chatVars, request>>

ContextTexts ==
    [p \in DOMAIN q.searchResults |->
        extractContentFromSearchResult(q.searchResults[p])]

\* await generateRAGResponse(query, contextTexts) returns after d clock
\* units, and the response is built.
QueryGenerateOk ==
    /\ q.pc = "generate"
    /\ \E d \in 0..MaxDelay, content \in GeneratedContents :
          q' = [q EXCEPT !.pc = "done",
                  !.calls = Append(@, Call("generate", TRUE, ContextTexts)),
                  !.elapsed = @ + d,
                  !.response =
                      [kind |-> "result", statusCode |-> 200,
                       answer |-> IF Length(content) > 0 THEN content
                                  ELSE StrNoResponse,
                       sources |-> Sources(q.searchResults, IncludeMetadata),
                       metadata |->
                          QueryMetadata(q.elapsed + d, q.searchTime, d,
                                        Len(q.searchResults))]]
    /\ UNCHANGED <<chunkVars, ingestVars, chatVars, request>>

QueryGenerateFail ==
    /\ q.pc = "generate"
    /\ q' = [q EXCEPT !.pc = AfterFailure,
               !.calls = Append(@, Call("generate", FALSE, ContextTexts)),
               !.response = handleError("Failed to generate response")]
    /\ UNCHANGED <<chunkVars, ingestVars, chatVars, request>>

(***************************************************************************)
(* POST /api/chat/completions, the OpenAI-compatible handler.              *)
(***************************************************************************)
JArray(items) == [type |-> "array", items |-> items]

\* The messages of a conversation: the three roles, and a content that is
\* empty, a text, or no string.
Roles == {"system", "user", "assistant"}
ChatContents ==
    {JStr(<<>>), JStr(Str(<<"a">>)), JStr(Str(<<"b">>)), JNum(5)}
ChatMessages == [role : Roles, content : ChatContents]

\* The messages field of the body: missing, no array, or an array.
MessagesValues ==
    {Undefined, JStr(Str(<<"a">>))}
    \cup {JArray(items) : items \in SeqsUpTo(ChatMessages, MaxMessages)}

ChatBodies ==
    {[kind |-> "invalid"], [kind |-> "null"]}
    \cup {[kind |-> "object", messages |-> messages, model |-> model,
           stream |-> stream] :
            messages \in MessagesValues,
            model \in {Undefined, JStr(Str(<<"m">>))},
            stream \in {Undefined, JBool(TRUE), JBool(FALSE)}}
ChatAuthHeaders == {Null, Concat(StrBearer, StrKey)}
ChatRequests ==
    [expectedKey : ApiKeys, authHeader : ChatAuthHeaders, body : ChatBodies]

IdleChat ==
    [pc |-> "start", calls |-> <<>>, query |-> <<>>, searchResults |-> <<>>,
     response |-> [kind |-> "none"]]

\* const { messages, model = "rag-enhanced", stream = false } = body
StrRagEnhanced == Str(<<"r", "a", "g">>)     \* "rag-enhanced"
Messages == chatRequest.body.messages
Model ==
    IF chatRequest.body.model.type = "undefined" THEN JStr(StrRagEnhanced)
    ELSE chatRequest.body.model
Stream ==
    IF chatRequest.body.stream.type = "undefined" THEN JBool(FALSE)
    ELSE chatRequest.body.stream

\* !messages || !Array.isArray(messages) || messages.length === 0
MessagesRejected(messages) ==
    \/ ~Truthy(messages)
    \/ messages.type # "array"
    \/ Len(messages.items) = 0

\* Array.prototype.reverse
reverse(items) == [p \in DOMAIN items |-> items[Len(items) + 1 - p]]

\* Array.prototype.find with the test msg.role === "user": the first element
\* of role user from position p on, Undefined when there is none.
RECURSIVE findUser(_, _)
findUser(items, p) ==
    IF p > Len(items) THEN Undefined
    ELSE IF items[p].role = "user"
    THEN [type |-> "object", role |-> items[p].role,
          content |-> items[p].content]
    ELSE findUser(items, p + 1)

\* A variant that takes the first message of role user.
firstUserMessage(messages) == findUser(messages.items, 1)

\* messages.reverse().find((msg) => msg.role === "user")
lastUserMessage(messages) == findUser(reverse(messages.items), 1)

\* !lastUserMessage || !lastUserMessage.content
UserMessageRejected(message) ==
    \/ ~Truthy(message)
    \/ ~Truthy(message.content)

\* Steps 1 and 2 of the handler: the API key, the body, the messages and the
\* stream flag are checked in this order.  Destructuring the body null throws
\* a TypeError, and so does query.substring when the content is no string;
\* the catch block of the handler answers both.
ChatValidate ==
    /\ chat.pc = "start"
    /\ chat' =
         IF ~validateAPIKey(chatRequest.authHeader, chatRequest.expectedKey)
         THEN [chat EXCEPT !.pc = "done",
                 !.response = createErrorResponse(
                     "Unauthorized", "Invalid or missing API key", 401)]
         ELSE IF chatRequest.body.kind = "invalid"
         THEN [chat EXCEPT !.pc = "done",
                 !.response = createErrorResponse(
                     "BadRequest", "Invalid JSON in request body", 400)]
         ELSE IF chatRequest.body.kind = "null"
         THEN [chat EXCEPT !.pc = "done",
                 !.response = handleError("Cannot destructure property")]
         ELSE IF MessagesRejected(Messages)
         THEN [chat EXCEPT !.pc = "done",
                 !.response = createErrorResponse(
                     "BadRequest",
                     "Messages array is required and must not be empty", 400)]
         ELSE IF UserMessageRejected(lastUserMessage(Messages))
         THEN [chat EXCEPT !.pc = "done",
                 !.response = createErrorResponse(
                     "BadRequest", "No user message found in conversation",
                     400)]
         ELSE IF lastUserMessage(Messages).content.type # "string"
         THEN [chat EXCEPT !.pc = "done",
                 !.response = handleError("query.substring is not a function")]
         ELSE IF Truthy(Stream)
         THEN [chat EXCEPT !.pc = "done",
                 !.response = createErrorResponse(
                     "NotImplemented", "Streaming not yet implemented", 501)]
         ELSE [chat EXCEPT !.pc = "embed",
                 !.query = lastUserMessage(Messages).content.str]
    /\ UNCHANGED <<chunkVars, ingestVars, queryVars, chatRequest>>

StrNoDocuments == Str(<<"n", "o", "d", "o", "c", "s">>) \* "I don't have any ..."
StrSourcesHeader ==
    Str(<<"\n", "\n", "*", "*", "S", "o", "u", "r", "c", "e", "s", ":", "*",
          "*", "\n">>)
ShownSources == 3    \* searchResults.slice(0, 3)

\* `${index + 1}. ${title}`, the title being metadata.title when it is a
\* string and `Document ${index + 1}` otherwise; index counted from 0.
SourceLine(result, index) ==
    LET title == IF "title" \in DOMAIN result.metadata
                    /\ result.metadata.title.type = "string"
                 THEN result.metadata.title.str
                 ELSE Concat(Str(<<"D", "o", "c", "u", "m", "e", "n", "t", " ">>),
                             NumberToString(index + 1))
    IN  Concat(Concat(NumberToString(index + 1), Str(<<".", " ">>)), title)

\* Array.prototype.join("\n")
RECURSIVE joinLines(_)
joinLines(lines) ==
    IF Len(lines) = 0 THEN <<>>
    ELSE IF Len(lines) = 1 THEN lines[1]
    ELSE Concat(Concat(lines[1], Rep("\n", 1)), joinLines(Tail(lines)))

SourceInfo(searchResults) ==
    LET shown == SubSeq(searchResults, 1,
                        IF Len(searchResults) < ShownSources
                        THEN Len(searchResults) ELSE ShownSources)
    IN  joinLines([p \in DOMAIN shown |-> SourceLine(shown[p], p - 1)])

\* query.length / 4 and the like: a quotient that is not rounded.
Quarter(n) == [num |-> n, den |-> 4]

\* The OpenAI-compatible response.  Its id and creation time, which are
\* read from the clock, are left out.
ChatCompletion(query, answer) ==
    [kind |-> "completion", statusCode |-> 200,
     object |-> "chat.completion",
     model |-> Model,
     choices |-> <<[index |-> 0,
                    message |-> [role |-> "assistant", content |-> answer],
                    finish_reason |-> "stop"]>>,
     usage |-> [prompt_tokens |-> Quarter(Length(query)),
                completion_tokens |-> Quarter(Length(answer)),
                total_tokens |-> Quarter(Length(query) + Length(answer))]]

\* await generateEmbedding(query)
ChatEmbedOk ==
    /\ chat.pc = "embed"
    /\ chat' = [chat EXCEPT !.pc = "search",
                  !.calls = Append(@, Call("embed", TRUE, chat.query))]
    /\ UNCHANGED <<chunkVars, ingestVars, queryVars, chatRequest>>

ChatEmbedFail ==
    /\ chat.pc = "embed"
    /\ chat' = [chat EXCEPT !.pc = "done",
                  !.calls = Append(@, Call("embed", FALSE, chat.query)),
                  !.response = handleError("Failed to generate embedding")]
    /\ UNCHANGED <<chunkVars, ingestVars, queryVars, chatRequest>>

\* await vectorSearch(embedding, config.topKResults); an empty result is
\* answered with a fixed text.
ChatSearchOk ==
    /\ chat.pc = "search"
    /\ \E results \in HitLists(MaxHits) :
          /\ Len(results) <= TopKResults
          /\ chat' = IF Len(results) = 0
                     THEN [chat EXCEPT !.pc = "done",
                             !.calls = Append(@, Call("search", TRUE,
                                                      TopKResults)),
                             !.searchResults = results,
                             !.response =
                                 ChatCompletion(chat.query, StrNoDocuments)]
                     ELSE [chat EXCEPT !.pc = "generate",
                             !.calls = Append(@, Call("search", TRUE,
                                                      TopKResults)),
                             !.searchResults = results]
    /\ UNCHANGED <<chunkVars, ingestVars, queryVars, chatRequest>>

ChatSearchFail ==
    /\ chat.pc = "search"
    /\ chat' = [chat EXCEPT !.pc = "done",
                  !.calls = Append(@, Call("search", FALSE, TopKResults)),
                  !.response = handleError("Vector search failed")]
    /\ UNCHANGED <<chunkVars, ingestVars, queryVars, chatRequest>>

ChatContextTexts ==
    [p \in DOMAIN chat.searchResults |->
        extractContentFromSearchResult(chat.searchResults[p])]

\* await generateRAGResponse(query, contextTexts); the titles of the first
\* matches are added to the answer.
ChatGenerateOk ==
    /\ chat.pc = "generate"
    /\ \E content \in GeneratedContents :
          LET ragAnswer == IF Length(content) > 0 THEN content
                           ELSE StrNoResponse
              answer == Concat(Concat(ragAnswer, StrSourcesHeader),
                               SourceInfo(chat.searchResults))
          IN  chat' = [chat EXCEPT !.pc = "done",
                         !.calls = Append(@, Call("generate", TRUE,
                                      [query |-> chat.query,
                                       contextTexts |-> ChatContextTexts])),
                         !.response = ChatCompletion(chat.query, answer)]
    /\ UNCHANGED <<chunkVars, ingestVars, queryVars, chatRequest>>

ChatGenerateFail ==
    /\ chat.pc = "generate"
    /\ chat' = [chat EXCEPT !.pc = "done",
                  !.calls = Append(@, Call("generate", FALSE,
                               [query |-> chat.query,
                                contextTexts |-> ChatContextTexts])),
                  !.response = handleError("Failed to generate response")]
    /\ UNCHANGED <<chunkVars, ingestVars, queryVars, chatRequest>>

(***************************************************************************)
(* Specifications: the chunker applied to every bounded input, the         *)
(* ingestion worker over every initial content of the stores, and the      *)
(* query handler and the chat completions handler over every request.      *)
(***************************************************************************)
IdleChunk ==
    /\ text = <<>>
    /\ chunkSize = 1
    /\ chunks = <<>>
    /\ chunked = FALSE

IdleIngest ==
    /\ blobStore = <<>>
    /\ docsTable = <<>>
    /\ jobsTable = {}
    /\ vectorIndex = {}
    /\ embedderVersion = 0
    /\ now = 0
    /\ runsStarted = 0
    /\ run = IdleRun
    /\ other = IdleRun
    /\ upserted = {}
    /\ markedIndexed = {}

IdleQueryHandler ==
    /\ request = [expectedKey |-> <<>>, authHeader |-> Null,
                  body |-> [kind |-> "invalid"]]
    /\ q = IdleQuery

IdleChatHandler ==
    /\ chatRequest = [expectedKey |-> <<>>, authHeader |-> Null,
                      body |-> [kind |-> "invalid"]]
    /\ chat = IdleChat

Texts == {Str(chars) : chars \in SeqsUpTo(Alphabet, MaxLen)}

InitChunk ==
    /\ IdleChatHandler
    /\ text \in Texts
    /\ chunkSize \in 1..MaxChunkSize
    /\ chunks = <<>>
    /\ chunked = FALSE
    /\ IdleIngest
    /\ IdleQueryHandler

CallChunkText ==
    /\ ~chunked
    /\ chunks' = chunkText(text, chunkSize)
    /\ chunked' = TRUE
    /\ UNCHANGED <<text, chunkSize, ingestVars, queryVars, chatVars>>

NextChunk == CallChunkText

SpecChunk == InitChunk /\ [][NextChunk]_vars

InitIngest ==
    /\ IdleChunk
    /\ IdleQueryHandler
    /\ IdleChatHandler
    /\ \E blobs \in SUBSET BlobPaths :
          blobStore = [path \in blobs |-> BlobContent(path)]
    /\ \E rows \in SUBSET RowIds :
          docsTable = [id \in rows |->
                          [content |-> RowContent(id),
                           metadata |-> RowMetadata(id),
                           indexed |-> FALSE]]
    /\ jobsTable = {}
    /\ vectorIndex = {}
    /\ embedderVersion = 0
    /\ now = 0
    /\ runsStarted = 0
    /\ run = IdleRun
    /\ other = IdleRun
    /\ upserted = {}
    /\ markedIndexed = {}

NextIngest ==
    \/ Tick
    \/ EmbedderUpdate
    \/ BlobUpdate
    \/ Start
    \/ Fetch
    \/ EmbedOk
    \/ EmbedFail
    \/ UpsertOk
    \/ UpsertFail
    \/ MarkOk
    \/ MarkFail
    \/ UpdateJobStatusOk
    \/ UpdateJobStatusFail
    \/ Finish

SpecIngest == InitIngest /\ [][NextIngest]_vars

\* Two ingestion requests whose awaited calls interleave: the second
\* request arrives while the first is being served.
StartConcurrent ==
    /\ runsStarted = 0 \/ (runsStarted = 1 /\ other.pc \notin {"idle", "done"})
    /\ Start

NextConcurrent ==
    \/ Tick
    \/ EmbedderUpdate
    \/ StartConcurrent
    \/ Fetch
    \/ EmbedOk
    \/ EmbedFail
    \/ UpsertOk
    \/ UpsertFail
    \/ MarkOk
    \/ MarkFail
    \/ UpdateJobStatusOk
    \/ UpdateJobStatusFail
    \/ Finish
    \/ Switch

SpecConcurrent == InitIngest /\ [][NextConcurrent]_vars

InitQuery ==
    /\ IdleChunk
    /\ IdleIngest
    /\ IdleChatHandler
    /\ request \in Requests
    /\ q = IdleQuery

NextQuery ==
    \/ QueryValidate
    \/ QueryEmbedOk
    \/ QueryEmbedFail
    \/ QuerySearchOk
    \/ QuerySearchFail
    \/ QueryGenerateOk
    \/ QueryGenerateFail

SpecQuery == InitQuery /\ [][NextQuery]_vars

InitChat ==
    /\ IdleChunk
    /\ IdleIngest
    /\ IdleQueryHandler
    /\ chatRequest \in ChatRequests
    /\ chat = IdleChat

NextChat ==
    \/ ChatValidate
    \/ ChatEmbedOk
    \/ ChatEmbedFail
    \/ ChatSearchOk
    \/ ChatSearchFail
    \/ ChatGenerateOk
    \/ ChatGenerateFail

SpecChat == InitChat /\ [][NextChat]_vars

(***************************************************************************)
(* Properties of chunkText.                                                *)
(***************************************************************************)
IsBlank(s) == \A i \in 1..Len(s) : s[i].c \in Whitespace

\* A single token: not empty and without whitespace.
IsSingleToken(s) == Length(s) > 0 /\ FirstWs(s) = 0

NonEmpty(s) == Length(s) > 0

\* The whitespace-normalized form of t: its non-empty tokens in order,
\* separated by single spaces.
Normalized(t) == join(SelectSeq(split(t), NonEmpty))

\* C3: chunkText of the empty string or of a string of whitespace only
\* returns an empty sequence of chunks, for every chunk size.
C3_BlankInputYieldsNoChunk ==
    (chunked /\ IsBlank(text)) => chunks = <<>>

C5_ChunkCoverage ==
    chunked => join(chunks) = Normalized(text)

(***************************************************************************)
(* Properties of the ingestion worker.                                     *)
(***************************************************************************)
\* The entries of the request's log for one call and one document position.
EntriesAt(op, pos) ==
    {k \in DOMAIN run.log : run.log[k].op = op /\ run.log[k].pos = pos}

\* The chunk/embed/upsert step of the document at pos failed.
Failed(pos) ==
    \E k \in DOMAIN run.log :
        /\ run.log[k].pos = pos
        /\ run.log[k].op \in {"embed", "upsert"}
        /\ ~run.log[k].ok

\* The ids of the vectors of a document: one per chunk of its content.
ExpectedIds(document) ==
    {VectorId(document.id, p - 1) :
        p \in DOMAIN chunkText(document.content, ProcessChunkSize)}

\* C1: in a finished run over a non-empty list of documents, every document
\* was attempted exactly once, whichever documents failed, and for every
\* document that did not fail one upsert call carried all of its vectors.
C1_PartialFailureIsolation ==
    (run.pc = "done" /\ Len(run.documents) > 0) =>
        \A pos \in DOMAIN run.documents :
            /\ Cardinality(EntriesAt("embed", pos)) = 1
            /\ Cardinality(EntriesAt("upsert", pos)) <= 1
            /\ ~Failed(pos) =>
                  \E k \in EntriesAt("upsert", pos) :
                      /\ run.log[k].ok
                      /\ {v.id : v \in Range(run.log[k].records)}
                            = ExpectedIds(run.documents[pos])
                      /\ Len(run.log[k].records) =
                            Cardinality(ExpectedIds(run.documents[pos]))

\* Of three documents the second failed and the first and third were upserted.
C1_Witness ==
    /\ run.pc = "done"
    /\ Len(run.documents) = 3
    /\ Failed(2)
    /\ \A pos \in {1, 3} : \E k \in EntriesAt("upsert", pos) : run.log[k].ok

\* C6: the vectors built for a document of N chunks are N, and the i-th
\* (from 0) has the id {documentId}_chunk_{i}, the i-th embedding of the
\* batch, the i-th chunk as content, chunkIndex i and totalChunks N.
C6_IndexAlignment ==
    run.pc \in {"upsert", "mark"} =>
        LET N == Len(run.chunks) IN
        /\ run.chunks = chunkText(Document.content, ProcessChunkSize)
        /\ Len(run.embeddings) = N
        /\ Len(run.vectorDocuments) = N
        /\ \A p \in 1..N :
              /\ run.vectorDocuments[p].id
                    = Concat(Concat(Document.id, StrChunk), NumberToString(p - 1))
              /\ run.vectorDocuments[p].values = run.embeddings[p]
              /\ run.vectorDocuments[p].metadata.content = run.chunks[p]
              /\ run.vectorDocuments[p].metadata.chunkIndex = p - 1
              /\ run.vectorDocuments[p].metadata.totalChunks = N
        /\ run.pc = "mark" =>
              run.log[Len(run.log)].records = run.vectorDocuments

\* The vectors of a document of two chunks with different embeddings.
C6_Witness ==
    /\ run.pc = "upsert"
    /\ Len(run.chunks) = 2
    /\ run.embeddings[1] # run.embeddings[2]

SameIdsAndContent(rs, qs) ==
    /\ Len(rs) = Len(qs)
    /\ \A p \in DOMAIN rs :
          /\ rs[p].id = qs[p].id
          /\ rs[p].metadata.content = qs[p].metadata.content

\* The upsert about to be made repeats an earlier one of the same document
\* under the same embedder, whose vectors are still in the index.
RepeatsUpsert ==
    /\ run.pc = "upsert"
    /\ \E u \in upserted :
          /\ u.document = Document
          /\ u.version = embedderVersion
          /\ Range(u.records) \subseteq vectorIndex

\* C7: two upserts of an unchanged document carry vectors of identical ids
\* and content, identical vectors when the embedder is the same; the index
\* never holds two vectors of one id; and upserting the document again
\* leaves the index as the first upsert left it.
C7_IdempotentReingestion ==
    /\ [](\A u, w \in upserted :
            u.document = w.document =>
                /\ SameIdsAndContent(u.records, w.records)
                /\ u.version = w.version => u.records = w.records)
    /\ [](\A v, w \in vectorIndex : v.id = w.id => v = w)
    /\ [][(RepeatsUpsert /\ run'.pc = "mark") => vectorIndex' = vectorIndex]_vars

\* A document was upserted by two requests under the same embedder.
C7_Witness ==
    \E u, w \in upserted :
        /\ u.document = w.document
        /\ u.version = w.version
        /\ u.run # w.run

(***************************************************************************)
(* Properties of the query handler.                                        *)
(***************************************************************************)
Called(op) == \E k \in DOMAIN q.calls : q.calls[k].op = op

\* The vector search of the request returned, and returned no match.
SearchReturnedZero ==
    /\ \E k \in DOMAIN q.calls : q.calls[k].op = "search" /\ q.calls[k].ok
    /\ Len(q.searchResults) = 0

\* C2: when the vector search returns zero results the request ends at once
\* with the fixed answer, no sources and llmGenerationTimeMs = 0, and the
\* answer generator is never called.
C2_ZeroResultShortCircuit ==
    SearchReturnedZero =>
        /\ q.pc = "done"
        /\ ~Called("generate")
        /\ q.response.kind = "result"
        /\ q.response.answer = StrNoInformation
        /\ q.response.sources = <<>>
        /\ q.response.metadata.llmGenerationTimeMs = 0

\* A search that took time returned no match.
C2_Witness ==
    /\ SearchReturnedZero
    /\ q.searchTime > 0
    /\ q.pc = "done"

ResultFields == {"answer", "sources", "metadata"}
TimingFields ==
    {"queryProcessingTimeMs", "vectorSearchTimeMs", "llmGenerationTimeMs",
     "totalDocumentsSearched", "model"}

SomeCallFailed == \E k \in DOMAIN q.calls : ~q.calls[k].ok

\* C8: a request gets one response, which is a complete result (answer,
\* sources, timing metadata) or a failure without answer and sources; when
\* the embedder, the index or the generator failed it is a failure.
C8_AllOrNothing ==
    /\ q.pc # "done" => q.response.kind = "none"
    /\ q.pc = "done" =>
          /\ q.response.kind \in {"result", "error"}
          /\ q.response.kind = "result" =>
                /\ ResultFields \subseteq DOMAIN q.response
                /\ DOMAIN q.response.metadata = TimingFields
                /\ q.response.statusCode = 200
          /\ q.response.kind = "error" =>
                /\ ResultFields \cap DOMAIN q.response = {}
                /\ q.response.statusCode >= 400
          /\ SomeCallFailed =>
                /\ q.response.kind = "error"
                /\ q.response.statusCode = 500

\* The answer generator failed after the search found matches.
C8_Witness ==
    /\ q.pc = "done"
    /\ Len(q.calls) = 3
    /\ ~q.calls[3].ok
    /\ Len(q.searchResults) > 0

CallOrder == <<"embed", "search", "generate">>

\* C9: the calls of a request are a prefix of <embed, search, generate>, and
\* every call but the first follows a call that succeeded.
C9_CallsInOrderNoRetry ==
    /\ Len(q.calls) <= 3
    /\ \A k \in DOMAIN q.calls :
          /\ q.calls[k].op = CallOrder[k]
          /\ k > 1 => q.calls[k - 1].ok

\* All three collaborators were called, one after the other, and succeeded.
C9_Witness ==
    /\ q.pc = "done"
    /\ Len(q.calls) = 3
    /\ \A k \in DOMAIN q.calls : q.calls[k].ok

\* The request carries the API key and a body that is JSON.
PassesKeyAndParse ==
    /\ validateAPIKey(request.authHeader, request.expectedKey)
    /\ request.body.kind # "invalid"

\* The query of the request is missing, no string, empty or blank.
BadQuery ==
    \/ request.body.kind = "null"
    \/ /\ request.body.kind = "object"
       /\ \/ Query.type # "string"
          \/ IsBlank(Query.str)

\* C10: a request (one that carries the API key and a JSON body) whose query
\* is missing, not a string, empty or blank is answered 400 BadRequest
\* before any call to the embedder, the index or the generator.
C10_BadQueryIsBadRequest ==
    (q.pc = "done" /\ PassesKeyAndParse /\ BadQuery) =>
        /\ q.response.kind = "error"
        /\ q.response.statusCode = 400
        /\ q.response.error = "BadRequest"
        /\ q.calls = <<>>

IsResult == q.pc = "done" /\ q.response.kind = "result"

\* The keys of the metadata of a result that hold a time.
TimingKeys ==
    DOMAIN q.response.metadata \ {"totalDocumentsSearched", "model"}

\* C11 (as stated): every result carries four timing values (embedding,
\* search, generation, total) with the count of documents searched and the
\* model.
C11_FourTimingValues ==
    IsResult =>
        /\ Cardinality(TimingKeys) = 4
        /\ {"totalDocumentsSearched", "model"} \subseteq DOMAIN q.response.metadata

\* C11 (amended): every result carries three timing values, the total time,
\* the search time and the generation time (0 when the generator was not
\* called), with the count of documents searched and the model; the
\* embedding time is in no field, and it is the rest of the total.
C11_ThreeTimingValues ==
    IsResult =>
        LET metadata == q.response.metadata
        IN  /\ DOMAIN metadata = TimingFields
            /\ TimingKeys = {"queryProcessingTimeMs", "vectorSearchTimeMs",
                             "llmGenerationTimeMs"}
            /\ metadata.queryProcessingTimeMs = q.elapsed
            /\ metadata.vectorSearchTimeMs = q.searchTime
            /\ metadata.llmGenerationTimeMs =
                  q.elapsed - q.embeddingTime - q.searchTime
            /\ ~Called("generate") => metadata.llmGenerationTimeMs = 0
            /\ metadata.totalDocumentsSearched = Len(q.searchResults)
            /\ metadata.model = StrModel

\* A result whose embedding, search and generation each took time.
C11_Witness ==
    /\ IsResult
    /\ q.embeddingTime > 0
    /\ q.searchTime > 0
    /\ q.response.metadata.llmGenerationTimeMs > 0

\* C12: with includeMetadata false every source of a result has a metadata
\* map that is present and empty; with includeMetadata true (or not
\* supplied) the metadata of every source holds only keys among title, url,
\* createdAt, updatedAt and documentType, each with the value the search
\* result holds under it.
C12_MetadataFiltering ==
    IsResult =>
        \A p \in DOMAIN q.response.sources :
            LET source == q.response.sources[p]
                found == q.searchResults[p].metadata
            IN  /\ "metadata" \in DOMAIN source
                /\ IncludeMetadata = JBool(FALSE) =>
                      DOMAIN source.metadata = {}
                /\ IncludeMetadata = JBool(TRUE) =>
                      /\ DOMAIN source.metadata \subseteq
                            {"title", "url", "createdAt", "updatedAt",
                             "documentType"}
                      /\ \A k \in DOMAIN source.metadata :
                            /\ k \in DOMAIN found
                            /\ found[k] = JStr(source.metadata[k])

\* A result with metadata whose search result also holds content and
\* chunkIndex.
C12_Witness ==
    /\ IsResult
    /\ IncludeMetadata = JBool(TRUE)
    /\ \E p \in DOMAIN q.response.sources :
          /\ {"content", "chunkIndex"} \subseteq DOMAIN q.searchResults[p].metadata
          /\ "title" \in DOMAIN q.response.sources[p].metadata

Clamp(n, lo, hi) == IF n < lo THEN lo ELSE IF n > hi THEN hi ELSE n

\* C13: the top-K count of every search call is the configured default when
\* maxResults is not supplied, and otherwise maxResults clamped into 1..20;
\* it is never zero, negative or above 20.
C13_TopKClamped ==
    \A k \in DOMAIN q.calls :
        q.calls[k].op = "search" =>
            /\ q.calls[k].arg \in 1..20
            /\ q.calls[k].arg =
                  IF MaxResults.type = "number"
                  THEN Clamp(MaxResults.num, 1, 20)
                  ELSE TopKResults

(***************************************************************************)
(* Properties of the result of an ingestion run.                           *)
(***************************************************************************)
\* The request got past the cron secret and its fetch returned no document.
FetchedNothing ==
    /\ run.pc \notin {"idle", "fetch"}
    /\ run.response.kind # "error"
    /\ Len(run.documents) = 0

\* C14: a run whose list of documents is empty returns at once with
\* documentsProcessed = 0, no error and success = true; no chunk is embedded
\* and nothing is written to the vector index or to the tables.
C14_EmptyRunReturnsAtOnce ==
    /\ [](FetchedNothing =>
            /\ run.pc = "done"
            /\ run.log = <<>>
            /\ run.response.kind = "job"
            /\ run.response.success = TRUE
            /\ run.response.documentsProcessed = 0
            /\ run.response.errors = <<>>)
    /\ [][(run.pc = "fetch" /\ Len(run'.documents) = 0) =>
            /\ run'.pc = "done"
            /\ UNCHANGED <<vectorIndex, docsTable, jobsTable, upserted>>]_vars

\* A run over stores that hold documents, none of which it could fetch.
C14_Witness ==
    /\ FetchedNothing
    /\ run.pc = "done"
    /\ StoredIds # {}

\* The positions of the documents whose chunk/embed/upsert step failed.
FailedPositions == {pos \in DOMAIN run.documents : Failed(pos)}

\* The k-th failed position in input order.
KthFailed(k) ==
    CHOOSE pos \in FailedPositions :
        Cardinality({x \in FailedPositions : x < pos}) = k - 1

Returned == run.pc = "done" /\ run.response.kind = "job"

\* C15: in every returned result success is true iff the error list is
\* empty, documentsProcessed plus the number of errors is the number of
\* input documents, and the errors are one per failed document, each with
\* the id of its document.
C15_ResultAccounting ==
    Returned =>
        LET result == run.response
        IN  /\ result.success <=> (Len(result.errors) = 0)
            /\ result.documentsProcessed + Len(result.errors)
                  = Len(run.documents)
            /\ Len(result.errors) = Cardinality(FailedPositions)
            /\ \A pos \in DOMAIN run.documents :
                  Cardinality({k \in DOMAIN result.errors :
                                  result.errors[k].documentId
                                      = run.documents[pos].id})
                  = Cardinality({x \in FailedPositions :
                                  run.documents[x].id = run.documents[pos].id})

\* Of three documents two were processed and one failed.
C15_Witness ==
    /\ Returned
    /\ Len(run.documents) = 3
    /\ run.response.documentsProcessed = 2
    /\ Len(run.response.errors) = 1
    /\ ~run.response.success

\* C16: the calls of a run go through the documents in input order, one
\* document after another, and the k-th error entry is of the k-th failed
\* document of the input.
C16_InputOrder ==
    /\ \A j, k \in DOMAIN run.log : j < k => run.log[j].pos <= run.log[k].pos
    /\ \A k \in DOMAIN run.log : run.log[k].pos <= run.i
    /\ Len(run.errors) = Cardinality(FailedPositions)
    /\ \A k \in DOMAIN run.errors :
          run.errors[k].documentId = run.documents[KthFailed(k)].id

\* Two documents of different ids failed, with a processed one between them.
C16_Witness ==
    /\ Returned
    /\ Len(run.response.errors) = 2
    /\ run.response.errors[1].documentId # run.response.errors[2].documentId
    /\ \E pos \in DOMAIN run.documents :
          /\ ~Failed(pos)
          /\ KthFailed(1) < pos
          /\ pos < KthFailed(2)

\* The document at pos has been left behind by the loop.
Left(pos) == pos < run.i \/ run.pc \in {"job", "done"}

\* C17: for each document the embedder is called once, with all chunks of
\* the document in chunk order; the index is called once when that call
\* succeeded, with one record per chunk in chunk order, and not at all
\* when it failed; no call is made again after a failure.
C17_OneCallPerDocument ==
    \A pos \in DOMAIN run.documents :
        LET embeds == EntriesAt("embed", pos)
            upserts == EntriesAt("upsert", pos)
            docChunks == chunkText(run.documents[pos].content, 1000)
        IN  /\ Cardinality(embeds) <= 1
            /\ Cardinality(upserts) <= 1
            /\ Left(pos) => Cardinality(embeds) = 1
            /\ \A k \in embeds : run.log[k].records = docChunks
            /\ \A k \in upserts :
                  /\ \E j \in embeds : j < k /\ run.log[j].ok
                  /\ Len(run.log[k].records) = Len(docChunks)
                  /\ \A p \in DOMAIN docChunks :
                        run.log[k].records[p].metadata.content = docChunks[p]
            /\ (Left(pos) /\ \E j \in embeds : run.log[j].ok)
                  => Cardinality(upserts) = 1

\* A run in which a batch of two chunks was embedded, one embedding call
\* failed and one upsert call failed.
C17_Witness ==
    /\ Returned
    /\ \E k \in DOMAIN run.log :
          run.log[k].op = "embed" /\ run.log[k].ok /\ Len(run.log[k].records) = 2
    /\ \E k \in DOMAIN run.log : run.log[k].op = "embed" /\ ~run.log[k].ok
    /\ \E k \in DOMAIN run.log : run.log[k].op = "upsert" /\ ~run.log[k].ok

ReservedKeys == {"content", "chunkIndex", "totalChunks"}

\* C18: every vector built for upsert holds under the key content the text
\* of its chunk, and under chunkIndex and totalChunks the position and the
\* number of chunks, also when the metadata of the document has keys of
\* these names; every other key of the document's metadata is kept.
C18_ContentKeyReserved ==
    run.pc \in {"upsert", "mark"} =>
        LET docChunks == chunkText(Document.content, 1000)
        IN  \A p \in DOMAIN run.vectorDocuments :
                LET metadata == run.vectorDocuments[p].metadata
                IN  /\ ReservedKeys \subseteq DOMAIN metadata
                    /\ metadata.content = docChunks[p]
                    /\ metadata.chunkIndex = p - 1
                    /\ metadata.totalChunks = Len(docChunks)
                    /\ \A k \in DOMAIN Document.metadata \ ReservedKeys :
                          /\ k \in DOMAIN metadata
                          /\ metadata[k] = Document.metadata[k]

\* The vectors of a document whose own metadata holds other values under
\* content, chunkIndex and totalChunks.
C18_Witness ==
    /\ run.pc = "upsert"
    /\ ReservedKeys \subseteq DOMAIN Document.metadata
    /\ Len(run.vectorDocuments) > 0
    /\ Document.metadata.content # run.vectorDocuments[1].metadata.content
    /\ Document.metadata.chunkIndex # run.vectorDocuments[1].metadata.chunkIndex

\* The positions of the documents for which mark-as-indexed was attempted.
MarkAttempted == {pos \in DOMAIN run.documents : EntriesAt("mark", pos) # {}}

\* C19: mark-as-indexed is attempted for a document only right after the
\* upsert of this document succeeded; whether it succeeds or fails the
\* document is counted as processed, no error entry is added, and the loop
\* goes on to the next document.
C19_MarkIndexedBestEffort ==
    /\ [](\A k \in DOMAIN run.log :
            run.log[k].op = "mark" =>
                /\ k > 1
                /\ run.log[k - 1].op = "upsert"
                /\ run.log[k - 1].ok
                /\ run.log[k - 1].pos = run.log[k].pos)
    /\ [](/\ run.processedCount = Cardinality(MarkAttempted)
          /\ Len(run.errors) = Cardinality(FailedPositions)
          /\ MarkAttempted \cap FailedPositions = {}
          /\ \A pos \in DOMAIN run.documents :
                Left(pos) => EntriesAt("embed", pos) # {})
    /\ [][run.pc = "mark" =>
            /\ run'.processedCount = run.processedCount + 1
            /\ run'.errors = run.errors
            /\ run'.i = run.i + 1
            /\ run'.pc = IF run.i < Len(run.documents) THEN "embed" ELSE "job"
         ]_vars

\* Mark-as-indexed failed for a document, a later document was upserted, and
\* the run reports all documents processed and no error.
C19_Witness ==
    /\ Returned
    /\ run.response.success
    /\ run.response.documentsProcessed = Len(run.documents)
    /\ \E k, j \in DOMAIN run.log :
          /\ run.log[k].op = "mark"
          /\ ~run.log[k].ok
          /\ k < j
          /\ run.log[j].op = "upsert"
          /\ run.log[j].ok

\* The request got past the cron secret and has not returned.
Authorized == run.pc \in {"fetch", "embed", "upsert", "mark", "job"}

\* C20: a run that got past the cron secret returns a job result, never a
\* failure response, whichever calls fail; the only failure response is the
\* 401 given before anything was fetched; and the result returned after the
\* job record was or was not persisted is the same: success iff no error,
\* the processed count and the errors collected by the loop.
C20_AlwaysAJobResult ==
    /\ [][(Authorized /\ run'.pc = "done") =>
            /\ run'.response.kind = "job"
            /\ run'.response.statusCode = 200]_vars
    /\ [][run.pc = "job" =>
            /\ run'.pc = "done"
            /\ run'.response.success = (Len(run.errors) = 0)
            /\ run'.response.documentsProcessed = run.processedCount
            /\ run'.response.errors = run.errors
            /\ run'.response.jobId = run.jobId]_vars
    /\ []((run.pc = "done" /\ run.response.kind = "error") =>
            /\ run.response.statusCode = 401
            /\ run.documents = <<>>
            /\ run.log = <<>>)

\* A run with a processed and a failed document returned its result although
\* the job record could not be persisted.
C20_Witness ==
    /\ Returned
    /\ run.jobId \notin jobsTable
    /\ run.response.documentsProcessed > 0
    /\ Len(run.response.errors) > 0

(***************************************************************************)
(* Properties of consecutive and concurrent ingestion runs.                *)
(***************************************************************************)
IndexIds == {v.id : v \in vectorIndex}

\* The upsert about to be made is of a document that an earlier request
\* upserted with more chunks.
ShrunkDocument(u) ==
    /\ run.pc = "upsert"
    /\ u.document.id = Document.id
    /\ u.run # run.id
    /\ Len(u.records) > Len(run.vectorDocuments)

\* C21: no step of an ingestion run removes an id from the vector index;
\* when a document is upserted with M chunks after an earlier run upserted
\* it with N > M chunks, the records _chunk_M .. _chunk_{N-1} of the earlier
\* run are in the index afterwards as they were.
C21_StaleChunksRemain ==
    /\ [][IndexIds \subseteq {v.id : v \in vectorIndex'}]_vars
    /\ [][\A u \in upserted :
            (ShrunkDocument(u) /\ run'.pc = "mark") =>
                \A p \in (Len(run.vectorDocuments) + 1)..Len(u.records) :
                    /\ u.records[p].id = VectorId(Document.id, p - 1)
                    /\ u.records[p] \in vectorIndex => u.records[p] \in vectorIndex'
         ]_vars

\* A document that was stored with two chunks has been upserted with one,
\* and the second chunk of the earlier version is in the index.
C21_Witness ==
    /\ run.pc = "mark"
    /\ Len(run.vectorDocuments) = 1
    /\ \E u \in upserted :
          /\ u.document.id = Document.id
          /\ u.run # run.id
          /\ Len(u.records) = 2
          /\ u.records[2] \in vectorIndex
          /\ u.records[2].metadata.content # run.vectorDocuments[1].metadata.content

\* C22: when a call to a document source failed during the listing (the
\* blob listing, the fetch of a blob or the query for pending rows) the
\* listing returns an empty list and the run processes no document.
C22_ListingFailsToEmpty ==
    run.fetchFailed =>
        /\ run.documents = <<>>
        /\ run.log = <<>>
        /\ run.pc \in {"done", "idle"}

Active(r) == r.pc \in {"fetch", "embed", "upsert", "mark", "job"}

\* C23: no two runs have the same job identifier, also when they start at
\* the same clock reading or run at once, and the identifier of a run is
\* not the key of a job record an earlier run persisted.
C23_JobIdUnique ==
    /\ (Active(run) /\ Active(other)) => run.jobId # other.jobId
    /\ Active(run) => run.jobId \notin jobsTable

\* The document of an upsert was the same in every upsert under its id.
Unchanged(u) ==
    \A w \in upserted : w.document.id = u.document.id => w.document = u.document

CarriesKey ==
    /\ Length(request.expectedKey) > 0
    /\ request.authHeader # Null
    /\ \/ request.authHeader = request.expectedKey
       \/ request.authHeader = Concat(Str(<<"B", "e", "a", "r", "e", "r", " ">>),
                                      request.expectedKey)

ContentOf(result) ==
    IF /\ "content" \in DOMAIN result.metadata
       /\ result.metadata.content.type = "string"
    THEN result.metadata.content.str
    ELSE <<>>

\* C26: a result over a non-empty list of search results has one source per
\* search result, in the order of the index, with the id and the score of
\* the search result and with its metadata content when that is a string
\* and the empty string otherwise; totalDocumentsSearched is the number of
\* sources; and the generator was called with these contents in this order.
C26_SourcesFollowSearchResults ==
    /\ \A k \in DOMAIN q.calls :
          q.calls[k].op = "generate" =>
              q.calls[k].arg =
                  [p \in DOMAIN q.searchResults |-> ContentOf(q.searchResults[p])]
    /\ (IsResult /\ Len(q.searchResults) > 0) =>
          /\ Len(q.response.sources) = Len(q.searchResults)
          /\ q.response.metadata.totalDocumentsSearched = Len(q.response.sources)
          /\ Called("generate")
          /\ \A p \in DOMAIN q.searchResults :
                /\ q.response.sources[p].id = q.searchResults[p].id
                /\ q.response.sources[p].score = q.searchResults[p].score
                /\ q.response.sources[p].content = ContentOf(q.searchResults[p])

\* A result of two sources, the first with content, the second from a search
\* result whose content is not a string.
C26_Witness ==
    /\ IsResult
    /\ Len(q.response.sources) = 2
    /\ Length(q.response.sources[1].content) > 0
    /\ q.response.sources[2].content = <<>>
    /\ "content" \in DOMAIN q.searchResults[2].metadata

(***************************************************************************)
(* Further properties of chunkText.                                        *)
(***************************************************************************)
\* The tokens a chunk was joined from.
TokensOf(chunk) == split(chunk)

RECURSIVE TokensOfAll(_)
TokensOfAll(cs) ==
    IF Len(cs) = 0 THEN <<>> ELSE TokensOf(cs[1]) \o TokensOfAll(Tail(cs))

\* The running length of a closed chunk: the sum over its tokens of the
\* length of the token plus 1.
RunningLength(chunk) == Length(chunk) + 1

C28_MarkedNotListedAgain ==
    \A m \in markedIndexed :
        m.run < run.id =>
            \A pos \in DOMAIN run.documents :
                run.documents[pos].id # m.document.id

(***************************************************************************)
(* The batch of processDocument.                                           *)
(***************************************************************************)
\* The vector record of the first chunk of a document is among `records`.
WritesFirstChunk(document, records) ==
    /\ Len(records) >= 1
    /\ records[1].id = VectorId(document.id, 0)

ChatAccepted ==
    /\ Length(chatRequest.expectedKey) > 0
    /\ chatRequest.authHeader = Concat(StrBearer, chatRequest.expectedKey)
    /\ chatRequest.body.kind = "object"

IsMessageArray == Messages.type = "array"

\* The positions of the messages of role user, and the content of the last
\* of them.
UserPositions == {p \in DOMAIN Messages.items : Messages.items[p].role = "user"}
LastUserPosition ==
    CHOOSE p \in UserPositions : \A r \in UserPositions : r <= p
LastUserContent == Messages.items[LastUserPosition].content

\* The conversation has a last user message whose content is a non-empty
\* string.
HasUserQuery ==
    /\ IsMessageArray
    /\ UserPositions # {}
    /\ LastUserContent.type = "string"
    /\ Length(LastUserContent.str) > 0

\* The conversation has no user message, or the content of its last user
\* message is empty.
NoUserQuery ==
    \/ ~IsMessageArray
    \/ UserPositions = {}
    \/ /\ LastUserContent.type = "string"
       /\ Length(LastUserContent.str) = 0

\* All messages are of the declared type: the content is a string.
TypedMessages ==
    /\ IsMessageArray
    /\ \A p \in DOMAIN Messages.items : Messages.items[p].content.type = "string"

ChatRejectedWith(statusCode) ==
    /\ chat.response.kind = "error"
    /\ chat.response.statusCode = statusCode

====
